---- MODULE Spec2Model ----
(***************************************************************************)
(* The watchlist store of baquet (src/baquet/watchlist.py) as a state      *)
(* machine: the tables watchlist, sublists and user_sublists               *)
(* (src/baquet/sql/watchlist.py) and the public operations that write      *)
(* them.  Every operation runs in one scoped session (autoflush is off)    *)
(* and is observed once it has committed.                                  *)
(*                                                                         *)
(* The second part is the Directory: the tables cache and directory of     *)
(* directory.db, hydrate_user_identifiers and the scan of the per-account  *)
(* stores, in the two places the repository holds them,                    *)
(* src/baquet/user.py and src/baquet/directory.py.                         *)
(***************************************************************************)
EXTENDS Integers, FiniteSets, Sequences, TLC

\* Bounds of the model: how many external lists exist to import, and the
\* largest sublist_id the store hands out.
NumExternal == 1
MaxSublistId == 2

\* BaquetConstants.
SUBLIST_TYPE_SELF == 1
SUBLIST_TYPE_TWITTER == 2
SUBLIST_TYPES_BLOCKBOT == 3

\* The NULL of a nullable column (the self sublist has no external_id).
Null == 0

\* The accounts (watchlist.user_id) and the ids of the external lists
\* (sublists.external_id) the operations are called with.
UserIds == {1, 2}
ExternalIds == 1..NumExternal

VARIABLES
    watchlist,      \* table watchlist: the set of user_id (primary key)
    sublists,       \* table sublists: rows [sublist_id, sublist_type_id, external_id]
    user_sublists,  \* table user_sublists: rows [user_id, sublist_id, locally_excluded]
    last,           \* the operation that committed last, with its arguments
    session,        \* the transaction a refresh has open, and what a reader saw
    user_data,      \* table watchlist: the rows whose user data is populated,
                    \* as [user_id, screen_name, last_updated]
    impl,           \* the module that holds Directory: "user.py" or "directory.py"
    cache,          \* table cache: rows [user_id, screen_name, last_updated]
    directory,      \* table directory: rows [user_id, screen_name, last_updated]
    users_in_path,  \* the numeric file names in ./users/ (the per-account stores)
    now,            \* datetime.utcnow(), in seconds since Directory() was built
    done,           \* the Directory call that returned or raised last
    store           \* table users of the store ./users/1.db: the last_updated
                    \* of its rows

\* The variables of the watchlist store and those of the Directory.
wvars == <<watchlist, sublists, user_sublists, last, session, user_data>>
dvars == <<impl, cache, directory, users_in_path, now, done, store>>
vars == <<watchlist, sublists, user_sublists, last, session, user_data,
          impl, cache, directory, users_in_path, now, done, store>>

\* A row of each table.
SubListSQL(sublist_id, sublist_type_id, external_id) ==
    [sublist_id |-> sublist_id, sublist_type_id |-> sublist_type_id,
     external_id |-> external_id]

UserSubListSQL(user_id, sublist_id, locally_excluded) ==
    [user_id |-> user_id, sublist_id |-> sublist_id,
     locally_excluded |-> locally_excluded]

\* What `last` records: the operation, the sublist it acted on, the list
\* _import_list was given, the user and flag given to
\* set_user_sublist_exclusion_status, whether _import_list created the
\* sublist, and the members the sublist had when a refresh or a removal
\* began.
Op(op, sublist_id, users, user_id, excluded, created, pre_members) ==
    [op |-> op, sublist_id |-> sublist_id, users |-> users, user_id |-> user_id,
     excluded |-> excluded, created |-> created, pre_members |-> pre_members]

SublistIds == {s.sublist_id : s \in sublists}

MembersOf(rows, sublist_id) ==
    {r.user_id : r \in {x \in rows : x.sublist_id = sublist_id}}

SetMax(S) == CHOOSE m \in S : \A x \in S : x <= m

\* An account as the remote service and the callers hand it over (a tweepy
\* user), reduced to the two attributes the Directory keys on.
Account(user_id, screen_name) ==
    [user_id |-> user_id, screen_name |-> screen_name]

NoUser == Account("", "")

\* What `done` records of a Directory call: the operation, the two arguments
\* of hydrate_user_identifiers, the user given to add_cache or
\* add_directory, the rows get_cache returned, the batches sent to
\* lookup_users, the accounts it returned, and the exception the call
\* raised ("" when it returned).
DirCall(op, user_ids, screen_names, user, cache_results, calls, tweepy_results, raised) ==
    [op |-> op, user_ids |-> user_ids, screen_names |-> screen_names,
     user |-> user, cache_results |-> cache_results, calls |-> calls,
     tweepy_results |-> tweepy_results, raised |-> raised]

\* Directory() has been built and nothing has been called.
Built == DirCall("__init__", <<>>, <<>>, NoUser, {}, <<>>, {}, "")

\* What `session` records of the scoped session of a thread that runs
\* _import_list on a sublist that exists: how far it got (pc), the sublist
\* and the list given, the members the sublist had when it began, the
\* tables as the open transaction sees them, and the member sets of the
\* sublist that a reader on another connection read meanwhile.
Session(pc, sublist_id, users, pre_members, wl, rows, seen) ==
    [pc |-> pc, sublist_id |-> sublist_id, users |-> users,
     pre_members |-> pre_members, watchlist |-> wl, user_sublists |-> rows,
     seen |-> seen]

\* No transaction is open.
Idle == Session("idle", Null, {}, {}, {}, {}, {})

\* _db_init: the three sublist types and the self sublist.  The watchlist
\* imports the Directory of user.py, which the operations below do not call;
\* add_watchlist merges rows that carry a user_id alone, so no row has user
\* data until refresh_watchlist_user_data runs.
Init ==
    /\ watchlist = {}
    /\ sublists = {SubListSQL(SUBLIST_TYPE_SELF, SUBLIST_TYPE_SELF, Null)}
    /\ user_sublists = {}
    /\ last = Op("_db_init", Null, {}, Null, FALSE, FALSE, {})
    /\ session = Idle
    /\ user_data = {}
    /\ impl = "user.py"
    /\ cache = {}
    /\ directory = {}
    /\ users_in_path = {}
    /\ now = 0
    /\ done = Built
    /\ store = {}

\* MergeUserSubList with user_id alone as the key.
MergeUserSubList_ByUser(rows, row) ==
    {r \in rows : r.user_id # row.user_id} \cup {row}

\* session.merge of a user_sublists row: an upsert on the primary key
\* (user_id, sublist_id).
MergeUserSubList(rows, row) ==
    {r \in rows : ~(r.user_id = row.user_id /\ r.sublist_id = row.sublist_id)}
        \cup {row}

\* The rows the "previous sublist" query matches.  Its filter is the Python
\* expression `user_id == u and sublist_id == s` over two SQL expressions:
\* `and` evaluates the truth value of the first comparison, which is False
\* for a column compared with a value, and so yields the first comparison
\* alone.  The query therefore filters on user_id only.
PrevUserSublists(rows, user_id, sublist_id) ==
    {r \in rows : r.user_id = user_id}

\* .first() of that query, reduced to the flag read from it: the query has
\* no ORDER BY, so any matching row may come first; no row gives False.
PrevLocallyExcluded(rows, user_id, sublist_id) ==
    IF PrevUserSublists(rows, user_id, sublist_id) = {}
    THEN {FALSE}
    ELSE {r.locally_excluded : r \in PrevUserSublists(rows, user_id, sublist_id)}

\* AddUsers leaving the loop after the first user.
AddUsers_FirstOnly(rows, users, sublist_id, picked) ==
    IF users = {}
    THEN rows
    ELSE LET u == CHOOSE x \in users : TRUE
         IN  MergeUserSubList(rows, UserSubListSQL(u, sublist_id, picked[u]))

\* The loop of add_watchlist over `users`.  The session does not autoflush,
\* so every "previous sublist" query reads the rows as they were before the
\* loop (db); picked[u] is the flag it read for user u.
RECURSIVE AddUsers(_, _, _, _)
AddUsers(rows, users, sublist_id, picked) ==
    IF users = {}
    THEN rows
    ELSE LET u == CHOOSE x \in users : TRUE
         IN  AddUsers(MergeUserSubList(rows,
                          UserSubListSQL(u, sublist_id, picked[u])),
                      users \ {u}, sublist_id, picked)

\* add_watchlist(users, sublist_id) applied to the tables (wl, rows).
add_watchlist(wl, rows, users, sublist_id) ==
    \E picked \in [users -> BOOLEAN] :
        /\ \A u \in users : picked[u] \in PrevLocallyExcluded(rows, u, sublist_id)
        /\ watchlist' = wl \cup users
        /\ user_sublists' = AddUsers(rows, users, sublist_id, picked)

\* The watchlist rows no user_sublists row references.
Orphans(wl, rows) ==
    {u \in wl : ~(\E r \in rows : r.user_id = u)}

\* DeleteOrphans with the orphan cleanup left out.
DeleteOrphans_None(wl, rows) == wl

DeleteOrphans(wl, rows) == wl \ Orphans(wl, rows)

\* DeleteNotExcluded without the locally_excluded condition.
DeleteNotExcluded_All(rows, sublist_id) ==
    {r \in rows : r.sublist_id # sublist_id}

\* DeleteNotExcluded with the delete left out.
DeleteNotExcluded_Nothing(rows, sublist_id) == rows

\* The bulk delete of _import_list: the links of the sublist that are not
\* locally excluded.
DeleteNotExcluded(rows, sublist_id) ==
    {r \in rows : ~(r.sublist_id = sublist_id /\ ~r.locally_excluded)}

\* The sublist _import_list finds for external_id.
CurrentSublist(external_id) ==
    {s \in sublists : s.external_id = external_id}

\* The primary key a new sublists row gets: an INTEGER PRIMARY KEY column
\* takes the largest key in the table plus one.
NewSublistId == SetMax(SublistIds) + 1

\* NewSublist without the external_id.
NewSublist_NoExternalId(sublist_type_id, external_id) ==
    SubListSQL(NewSublistId, sublist_type_id, Null)

\* The row _import_list adds for a list it has not seen.
NewSublist(sublist_type_id, external_id) ==
    SubListSQL(NewSublistId, sublist_type_id, external_id)

\* _import_list(external_id, name, sublist_type_id, users).
import_list(external_id, sublist_type_id, users) ==
    IF CurrentSublist(external_id) = {}
    THEN /\ NewSublistId <= MaxSublistId
         /\ sublists' = sublists \cup {NewSublist(sublist_type_id, external_id)}
         /\ add_watchlist(watchlist, user_sublists, users, NewSublistId)
    ELSE \E current_sublist \in CurrentSublist(external_id) :
            LET sid == current_sublist.sublist_id
                rows == DeleteNotExcluded(user_sublists, sid)
            IN  /\ sublists' = sublists
                /\ add_watchlist(DeleteOrphans(watchlist, rows), rows, users, sid)

\* What `last` records of a run of _import_list.
ImportOp(op, external_id, users) ==
    IF CurrentSublist(external_id) = {}
    THEN Op(op, NewSublistId, users, Null, FALSE, TRUE, {})
    ELSE LET sid == (CHOOSE s \in CurrentSublist(external_id) : TRUE).sublist_id
         IN  Op(op, sid, users, Null, FALSE, FALSE, MembersOf(user_sublists, sid))

\* import_twitter_list(twitter_id); members is what the list holds.
import_twitter_list(twitter_id, members) ==
    import_list(twitter_id, SUBLIST_TYPE_TWITTER, members)

\* import_blockbot_list(blockbot_id, name); blockbot_list is what the
\* fetched file holds.
import_blockbot_list(blockbot_id, blockbot_list) ==
    import_list(blockbot_id, SUBLIST_TYPES_BLOCKBOT, blockbot_list)

\* refresh_sublist(sublist_id); fetched is the list the external source
\* returns now.
refresh_sublist(sublist_id, fetched) ==
    \E sublist \in {s \in sublists : s.sublist_id = sublist_id} :
        IF sublist.sublist_type_id = SUBLIST_TYPE_TWITTER
        THEN /\ import_twitter_list(sublist.external_id, fetched)
             /\ last' = ImportOp("refresh_sublist", sublist.external_id, fetched)
        ELSE IF sublist.sublist_type_id = SUBLIST_TYPES_BLOCKBOT
        THEN /\ import_blockbot_list(sublist.external_id, fetched)
             /\ last' = ImportOp("refresh_sublist", sublist.external_id, fetched)
        ELSE /\ fetched = {}
             /\ UNCHANGED <<watchlist, sublists, user_sublists>>
             /\ last' = Op("refresh_sublist", sublist_id, {}, Null, FALSE, FALSE,
                           MembersOf(user_sublists, sublist_id))

\* set_user_sublist_exclusion_status(user_id, sublist_id, excluded): the
\* flag is written to .first() of the query; with no row for the user the
\* attribute write raises and the session rolls back.
set_user_sublist_exclusion_status(user_id, sublist_id, excluded) ==
    \E user_sublist \in PrevUserSublists(user_sublists, user_id, sublist_id) :
        /\ user_sublists' = MergeUserSubList(user_sublists,
               [user_sublist EXCEPT !.locally_excluded = excluded])
        /\ UNCHANGED <<watchlist, sublists>>
        /\ last' = Op("set_user_sublist_exclusion_status", sublist_id, {},
                      user_id, excluded, FALSE, {})

\* DeleteSublist without the guard for the self sublist.
DeleteSublist_Unguarded(rows, sublist_id) ==
    {s \in rows : s.sublist_id # sublist_id}

\* The sublists delete of remove_sublist, guarded against the self sublist.
DeleteSublist(rows, sublist_id) ==
    IF sublist_id # SUBLIST_TYPE_SELF
    THEN {s \in rows : s.sublist_id # sublist_id}
    ELSE rows

\* DeleteSublistLinks sparing the locally excluded links, as the delete of
\* _import_list does.
DeleteSublistLinks_NotExcluded(rows, sublist_id) ==
    {r \in rows : ~(r.sublist_id = sublist_id /\ ~r.locally_excluded)}

\* The user_sublists delete of remove_sublist: every link of the sublist.
DeleteSublistLinks(rows, sublist_id) ==
    {r \in rows : r.sublist_id # sublist_id}

\* remove_sublist(sublist_id).
remove_sublist(sublist_id) ==
    LET rows == DeleteSublistLinks(user_sublists, sublist_id)
    IN  /\ sublists' = DeleteSublist(sublists, sublist_id)
        /\ user_sublists' = rows
        /\ watchlist' = DeleteOrphans(watchlist, rows)
        /\ last' = Op("remove_sublist", sublist_id, {}, Null, FALSE, FALSE,
                      MembersOf(user_sublists, sublist_id))

AddWatchlist ==
    \E users \in SUBSET UserIds, sublist_id \in SublistIds :
        /\ add_watchlist(watchlist, user_sublists, users, sublist_id)
        /\ sublists' = sublists
        /\ last' = Op("add_watchlist", sublist_id, {}, Null, FALSE, FALSE, {})
        /\ UNCHANGED <<session, user_data, dvars>>

ImportTwitterList ==
    \E twitter_id \in ExternalIds, members \in SUBSET UserIds :
        /\ import_twitter_list(twitter_id, members)
        /\ last' = ImportOp("import_twitter_list", twitter_id, members)
        /\ UNCHANGED <<session, user_data, dvars>>

ImportBlockbotList ==
    \E blockbot_id \in ExternalIds, blockbot_list \in SUBSET UserIds :
        /\ import_blockbot_list(blockbot_id, blockbot_list)
        /\ last' = ImportOp("import_blockbot_list", blockbot_id, blockbot_list)
        /\ UNCHANGED <<session, user_data, dvars>>

RefreshSublist ==
    \E sublist_id \in SublistIds, fetched \in SUBSET UserIds :
        /\ refresh_sublist(sublist_id, fetched)
        /\ UNCHANGED <<session, user_data, dvars>>

SetUserSublistExclusionStatus ==
    \E user_id \in UserIds, sublist_id \in SublistIds, excluded \in BOOLEAN :
        /\ set_user_sublist_exclusion_status(user_id, sublist_id, excluded)
        /\ UNCHANGED <<session, user_data, dvars>>

RemoveSublist ==
    \E sublist_id \in SublistIds :
        /\ remove_sublist(sublist_id)
        /\ UNCHANGED <<session, user_data, dvars>>

Next ==
    \/ AddWatchlist
    \/ ImportTwitterList
    \/ ImportBlockbotList
    \/ RefreshSublist
    \/ SetUserSublistExclusionStatus
    \/ RemoveSublist

Spec == Init /\ [][Next]_vars

(***************************************************************************)
(* The claims.                                                             *)
(***************************************************************************)

\* The operations that run _import_list.
ImportOps == {"import_twitter_list", "import_blockbot_list", "refresh_sublist"}

\* The last operation ran _import_list (a refresh of the self sublist does
\* not: refresh_sublist passes).
RanImportList(l) ==
    l.op \in ImportOps /\ l.sublist_id # SUBLIST_TYPE_SELF

\* The last operation ran _import_list on a sublist that existed already.
Refreshed(l) == RanImportList(l) /\ ~l.created

\* The rows of the pair (user_id, sublist_id).
LinksOf(rows, user_id, sublist_id) ==
    {r \in rows : r.user_id = user_id /\ r.sublist_id = sublist_id}

\* C1: after every operation, a watchlist row exists if and only if at least
\* one user_sublists row references it.
C1_MemberIffMembership ==
    watchlist = {r.user_id : r \in user_sublists}

\* C1 witness: a removal has orphaned one member of the sublist, and the
\* watchlist still holds an account with a link.
C1_Witness ==
    /\ last.op = "remove_sublist"
    /\ \E x \in last.pre_members : x \notin watchlist
    /\ watchlist # {}
    /\ user_sublists # {}

\* C2: a refresh of sublist S with a list that still contains X leaves a
\* locally excluded link (X, S) locally excluded.
C2_ExclusionSurvivesRefresh ==
    [][Refreshed(last') =>
        \A x \in last'.users :
            UserSubListSQL(x, last'.sublist_id, TRUE) \in user_sublists
            => UserSubListSQL(x, last'.sublist_id, TRUE) \in user_sublists']_vars

\* C3: a link (X, S) that add_watchlist or an import creates, where none of
\* that pair existed, is not locally excluded.
C3_NewLinkNotExcluded ==
    [][last'.op \in ImportOps \cup {"add_watchlist"} =>
        \A x \in UserIds :
            (/\ LinksOf(user_sublists, x, last'.sublist_id) = {}
             /\ LinksOf(user_sublists', x, last'.sublist_id) # {})
            => LinksOf(user_sublists', x, last'.sublist_id) =
                   {UserSubListSQL(x, last'.sublist_id, FALSE)}]_vars

\* C4: set_user_sublist_exclusion_status(user_id, sublist_id, excluded) sets
\* the flag of the link of exactly that pair and changes no other link.
C4_SetsExactlyThePair ==
    [][last'.op = "set_user_sublist_exclusion_status" =>
        user_sublists' =
            {IF r.user_id = last'.user_id /\ r.sublist_id = last'.sublist_id
             THEN [r EXCEPT !.locally_excluded = last'.excluded]
             ELSE r : r \in user_sublists}]_vars

\* C5 as claimed: a refresh of S with a list that no longer contains X deletes
\* a locally excluded link (X, S), and X's watchlist row when X has no other
\* link.
C5_ExcludedAbsentDeleted ==
    [][Refreshed(last') =>
        \A x \in UserIds \ last'.users :
            UserSubListSQL(x, last'.sublist_id, TRUE) \in user_sublists
            => /\ LinksOf(user_sublists', x, last'.sublist_id) = {}
               /\ (\A r \in user_sublists : r.user_id = x => r.sublist_id = last'.sublist_id)
                  => x \notin watchlist']_vars

\* C5 as amended: a refresh of S with a list that no longer contains X keeps
\* a locally excluded link (X, S), still locally excluded, and keeps X's
\* watchlist row.
C5_ExcludedAbsentKept ==
    [][Refreshed(last') =>
        \A x \in UserIds \ last'.users :
            UserSubListSQL(x, last'.sublist_id, TRUE) \in user_sublists
            => /\ LinksOf(user_sublists', x, last'.sublist_id) =
                      {UserSubListSQL(x, last'.sublist_id, TRUE)}
               /\ x \in watchlist']_vars

\* C5 witness: a refresh whose list lacks an account that is linked to the
\* sublist, locally excluded, after it.
C5_Witness ==
    /\ Refreshed(last)
    /\ \E x \in last.pre_members \ last.users :
           /\ UserSubListSQL(x, last.sublist_id, TRUE) \in user_sublists
           /\ x \in watchlist

\* C6: after _import_list(S, L) every account of L is on the watchlist with
\* exactly one link to S, and the links of a sublist created by the import
\* are exactly L.
C6_ImportedListLinked ==
    RanImportList(last) =>
        /\ \A x \in last.users :
               /\ x \in watchlist
               /\ Cardinality(LinksOf(user_sublists, x, last.sublist_id)) = 1
        /\ last.created => MembersOf(user_sublists, last.sublist_id) = last.users

\* C6 witness: a first import of a list of two accounts, and a refresh with a
\* list is reached as well (C7 witness).
C6_Witness ==
    /\ RanImportList(last)
    /\ last.created
    /\ Cardinality(last.users) = 2
    /\ MembersOf(user_sublists, last.sublist_id) = last.users

\* C7: a refresh of S with list L deletes every link of S that was not
\* locally excluded and whose account is not in L, deletes every account left
\* with no link, and keeps an account that has a link to another sublist.
C7_RefreshDeletesSuperseded ==
    [][Refreshed(last') =>
        /\ \A r \in user_sublists :
               (/\ r.sublist_id = last'.sublist_id
                /\ ~r.locally_excluded
                /\ r.user_id \notin last'.users)
               => LinksOf(user_sublists', r.user_id, r.sublist_id) = {}
        /\ \A u \in watchlist :
               /\ (\A r \in user_sublists' : r.user_id # u) => u \notin watchlist'
               /\ (\E r \in user_sublists' :
                       r.user_id = u /\ r.sublist_id # last'.sublist_id)
                  => u \in watchlist']_vars

\* C7 witness: a refresh has dropped two members that its list lacks; one had
\* no other link and is off the watchlist, the other is linked elsewhere
\* and is still on it.
C7_Witness ==
    /\ Refreshed(last)
    /\ \E x, y \in last.pre_members \ last.users :
           /\ LinksOf(user_sublists, x, last.sublist_id) = {}
           /\ LinksOf(user_sublists, y, last.sublist_id) = {}
           /\ x \notin watchlist
           /\ y \in watchlist

\* C8: remove_sublist(S) deletes every link of S; a member of S alone loses
\* its watchlist row, a member that has a link to another sublist keeps it.
C8_RemoveSublistCleansUp ==
    [][last'.op = "remove_sublist" =>
        /\ MembersOf(user_sublists', last'.sublist_id) = {}
        /\ \A u \in MembersOf(user_sublists, last'.sublist_id) \cap watchlist :
               IF \E r \in user_sublists :
                      r.user_id = u /\ r.sublist_id # last'.sublist_id
               THEN u \in watchlist'
               ELSE u \notin watchlist']_vars

\* C8 witness: a removal of an imported sublist with two members, of which
\* one is off the watchlist and one, linked elsewhere, is on it.
C8_Witness ==
    /\ last.op = "remove_sublist"
    /\ last.sublist_id # SUBLIST_TYPE_SELF
    /\ \E x, y \in last.pre_members :
           /\ x \notin watchlist
           /\ y \in watchlist
           /\ LinksOf(user_sublists, y, SUBLIST_TYPE_SELF) # {}

\* C9: the self sublist row exists in every state; remove_sublist of the
\* self sublist clears its links and the accounts thereby orphaned.
C9_SelfSublistKept ==
    /\ SubListSQL(SUBLIST_TYPE_SELF, SUBLIST_TYPE_SELF, Null) \in sublists
    /\ (last.op = "remove_sublist" /\ last.sublist_id = SUBLIST_TYPE_SELF)
       => /\ MembersOf(user_sublists, SUBLIST_TYPE_SELF) = {}
          /\ \A u \in last.pre_members :
                 u \in watchlist <=> \E r \in user_sublists : r.user_id = u

\* C9 witness: remove_sublist of the self sublist has cleared a member of it.
C9_Witness ==
    /\ last.op = "remove_sublist"
    /\ last.sublist_id = SUBLIST_TYPE_SELF
    /\ \E x \in last.pre_members : x \notin watchlist

\* C10: there is at most one sublists row per external id; an import of an
\* external id that has no row adds exactly one row, for that id, and an
\* import of an external id that has a row adds none.
C10_OneSublistPerExternalId ==
    [][/\ \A e \in ExternalIds :
              Cardinality({s \in sublists' : s.external_id = e}) <= 1
       /\ RanImportList(last') =>
              \E s \in sublists' :
                  /\ s.sublist_id = last'.sublist_id
                  /\ s.external_id \in ExternalIds
                  /\ IF CurrentSublist(s.external_id) = {}
                     THEN /\ last'.created
                          /\ s \notin sublists
                          /\ sublists' = sublists \cup {s}
                     ELSE /\ ~last'.created
                          /\ sublists' = sublists]_vars

\* C10 witness: an import call (not a refresh) for an external id that had a
\* sublist already.
C10_Witness ==
    /\ last.op \in {"import_twitter_list", "import_blockbot_list"}
    /\ ~last.created
    /\ \E s \in sublists :
           s.sublist_id = last.sublist_id /\ s.external_id \in ExternalIds

(***************************************************************************)
(* The Directory: the account cache, hydrate_user_identifiers and the      *)
(* directory of per-account stores.                                        *)
(***************************************************************************)

\* Bounds of the Directory model: cache_expiry in seconds, and the number
\* of identifiers one lookup_users call takes (100 in the source).
CacheExpiry == 1
ChunkSize == 1

\* The clock runs from the construction of the Directory to one second
\* past the expiry of what was stored then.
MaxTime == CacheExpiry + 1

\* Directory.__init__: the cutoff is computed once, when the module global
\* _DIRECTORY is built (now = 0).
ExpiredTime == 0 - CacheExpiry

\* A Python value in an identifier list: a str or an int.
PyStr(value) == [type |-> "str", value |-> value]
PyInt(value) == [type |-> "int", value |-> value]

\* An argument left at its default.
None == <<[type |-> "NoneType", value |-> "None"]>>

\* The truth value of a list argument: None and [] are false.
Truthy(list) == list # None /\ list # <<>>

Range(list) == {list[i] : i \in DOMAIN list}

\* str.lower() on the strings of the model.
lower(s) == IF s = "Al" THEN "al" ELSE s

\* `x in strings` for a list of str: an int equals no str.
PyIn(x, strings) == x.type = "str" /\ x.value \in strings

\* The accounts the remote service knows.  Account 2 has the screen name
\* "1", the id of account 1; id "3" and the name "zed" are unknown to it.
RemoteAccounts == {Account("1", "Al"), Account("2", "1")}

\* The identifiers the callers pass.
IdValues == {"1", "2", "3"}
NameValues == {"Al", "zed"}

\* _API.lookup_users(user_ids=batch) or (screen_names=batch): the known
\* accounts among the batch; the service matches names without case.
lookup_users(by_id, batch) ==
    IF by_id
    THEN {a \in RemoteAccounts : \E k \in Range(batch) : k.value = a.user_id}
    ELSE {a \in RemoteAccounts :
             \E k \in Range(batch) : lower(k.value) = lower(a.screen_name)}

\* transform_user(user, kind=CACHE) and (kind=DIRECTORY): the row of the
\* account, stamped with utcnow().
CacheSQL(user, t) ==
    [user_id |-> user.user_id, screen_name |-> user.screen_name,
     last_updated |-> t]

DirectorySQL(user, t) ==
    [user_id |-> user.user_id, screen_name |-> user.screen_name,
     last_updated |-> t]

\* The account of a row.
AccountOf(row) == Account(row.user_id, row.screen_name)

\* add_cache as an INSERT that leaves the row of the same user_id in place.
add_cache_Insert(c, user, t) == c \cup {CacheSQL(user, t)}

\* add_cache writing the table anew.
add_cache_Truncate(c, user, t) == {CacheSQL(user, t)}

\* Directory.add_cache(user): session.merge, an upsert on the primary key
\* user_id, then commit.
add_cache(c, user, t) ==
    {r \in c : r.user_id # user.user_id} \cup {CacheSQL(user, t)}

\* `for user in users: _DIRECTORY.add_cache(user)`.
RECURSIVE AddCacheAll(_, _, _)
AddCacheAll(c, users, t) ==
    IF users = {}
    THEN c
    ELSE LET user == CHOOSE x \in users : TRUE
         IN  AddCacheAll(add_cache(c, user, t), users \ {user}, t)

\* Directory.get_cache.  In user.py it takes one list and filters
\*   (user_id IN list OR lower(screen_name) IN list) AND last_updated > cutoff;
\* a value compared with the TEXT column user_id is converted to text, a
\* value compared with the expression lower(screen_name) is not.  In
\* directory.py it takes both lists and joins the cache with the temporary
\* join rows of one of them, on user_id or on screen_name as stored, with
\* no condition on last_updated; the join rows are removed again before it
\* returns.
get_cache(c, user_ids, screen_names) ==
    IF impl = "user.py"
    THEN LET user_identifiers == IF Truthy(user_ids) THEN user_ids ELSE screen_names
         IN  {r \in c :
                 /\ \E k \in Range(user_identifiers) :
                        \/ k.value = r.user_id
                        \/ PyIn(k, {lower(r.screen_name)})
                 /\ r.last_updated > ExpiredTime}
    ELSE IF Truthy(user_ids)
    THEN {r \in c : \E k \in Range(user_ids) : k.value = r.user_id}
    ELSE {r \in c : \E k \in Range(screen_names) : k.value = r.screen_name}

\* "Remove cached users from the users to look up": the identifiers that
\* are neither a user_id nor a lower-cased screen_name of a returned row.
Misses(user_identifiers, cache_results) ==
    LET cache_results_ids == {r.user_id : r \in cache_results}
        cache_results_screen_names == {lower(r.screen_name) : r \in cache_results}
        Missed(k) == ~PyIn(k, cache_results_ids)
                         /\ ~PyIn(k, cache_results_screen_names)
    IN  SelectSeq(user_identifiers, Missed)

\* iterations = ceil(len(user_identifiers) / 100).
Iterations(n) == (n + ChunkSize - 1) \div ChunkSize

\* Batch without the slice: every call gets the whole list.
Batch_Unsliced(misses, i) == misses

\* user_identifiers[start:end] of iteration i (counted from 1).
Batch(misses, i) ==
    LET start == (i - 1) * ChunkSize
        end == IF i * ChunkSize > Len(misses) THEN Len(misses) ELSE i * ChunkSize
    IN  SubSeq(misses, start + 1, end)

\* The accounts lookup_users returned in iterations 1..m.
Fetched(by_id, misses, m) ==
    UNION {lookup_users(by_id, Batch(misses, i)) : i \in 1..m}

\* CacheAfter with the writes of the iterations undone.
CacheAfter_RolledBack(c, by_id, misses, m, t) == c

\* The cache once iterations 1..m have run: every account they returned
\* has been added and committed.
CacheAfter(c, by_id, misses, m, t) ==
    AddCacheAll(c, Fetched(by_id, misses, m), t)

\* What a call of hydrate_user_identifiers leaves and returns.
Hydrated(c, cache_results, calls, tweepy_results, raised) ==
    [cache |-> c, cache_results |-> cache_results, calls |-> calls,
     tweepy_results |-> tweepy_results, raised |-> raised]

\* hydrate_user_identifiers(user_ids, screen_names) on the cache c at time
\* t.  lookup_users raises in iteration fail_at, if the loop gets there; the
\* call has no handler, so the exception leaves it.  With user_ids false and
\* screen_names left at None the first statement iterates over None.
hydrate_user_identifiers(c, user_ids, screen_names, fail_at, t) ==
    IF ~Truthy(user_ids) /\ screen_names = None
    THEN Hydrated(c, {}, <<>>, {}, "TypeError")
    ELSE LET by_id == Truthy(user_ids)
             user_identifiers ==
                 IF by_id
                 THEN user_ids
                 ELSE [i \in DOMAIN screen_names |->
                          PyStr(lower(screen_names[i].value))]
         IN  IF user_identifiers = <<>>
             THEN Hydrated(c, {}, <<>>, {}, "")
             ELSE LET cache_results ==
                          get_cache(c, user_ids,
                                    IF by_id THEN screen_names ELSE user_identifiers)
                      misses == Misses(user_identifiers, cache_results)
                      iterations == Iterations(Len(misses))
                      fails == fail_at \in 1..iterations
                      completed == IF fails THEN fail_at - 1 ELSE iterations
                      called == IF fails THEN fail_at ELSE iterations
                 IN  Hydrated(CacheAfter(c, by_id, misses, completed, t),
                              cache_results,
                              [i \in 1..called |-> Batch(misses, i)],
                              Fetched(by_id, misses, completed),
                              IF fails THEN "TweepError" ELSE "")

\* The accounts add_cache and add_directory are called with: those the
\* remote service knows, and account 1 under a screen name without capitals.
Users == RemoteAccounts \cup {Account("1", "al")}

\* The lists hydrate_user_identifiers is called with: of no, one or two of
\* the values, which may be the same.
Lists(values) ==
    {<<>>} \cup {<<PyStr(v)>> : v \in values}
           \cup {<<PyStr(v), PyStr(w)>> : v, w \in values}

\* The rows directory.db can hold when the Directory is built: it outlives
\* the process, so a row can be as old as the cutoff.
Persisted == {{}, {CacheSQL(Account("1", "Al"), ExpiredTime)}}

\* The Directory once built, in either module, on a directory.db that is
\* new or holds an old row.
InitCache ==
    /\ watchlist = {}
    /\ sublists = {SubListSQL(SUBLIST_TYPE_SELF, SUBLIST_TYPE_SELF, Null)}
    /\ user_sublists = {}
    /\ last = Op("_db_init", Null, {}, Null, FALSE, FALSE, {})
    /\ session = Idle
    /\ user_data = {}
    /\ impl \in {"user.py", "directory.py"}
    /\ cache \in Persisted
    /\ directory = {}
    /\ users_in_path = {}
    /\ now = 0
    /\ done = Built
    /\ store = {}

\* A second passes.
Tick ==
    /\ now < MaxTime
    /\ now' = now + 1
    /\ done' = DirCall("sleep", None, None, NoUser, {}, <<>>, {}, "")
    /\ UNCHANGED <<impl, cache, directory, users_in_path, store>>
    /\ UNCHANGED wvars

AddCache ==
    \E user \in Users :
        /\ cache' = add_cache(cache, user, now)
        /\ done' = DirCall("add_cache", None, None, user, {}, <<>>, {}, "")
        /\ UNCHANGED <<impl, directory, users_in_path, now, store>>
        /\ UNCHANGED wvars

\* The iterations in which lookup_users can raise during the call: 0 stands
\* for none.
FailAt(user_ids, screen_names) ==
    0..Len(hydrate_user_identifiers(cache, user_ids, screen_names, 0, now).calls)

\* hydrate_user_identifiers as an operation of its own.
Hydrate(user_ids, screen_names, fail_at) ==
    LET h == hydrate_user_identifiers(cache, user_ids, screen_names, fail_at, now)
    IN  /\ cache' = h.cache
        /\ done' = DirCall("hydrate_user_identifiers", user_ids, screen_names,
                           NoUser, h.cache_results, h.calls, h.tweepy_results,
                           h.raised)

HydrateUserIds ==
    \E user_ids \in Lists(IdValues) :
        \E fail_at \in FailAt(user_ids, None) :
            /\ Hydrate(user_ids, None, fail_at)
            /\ UNCHANGED <<impl, directory, users_in_path, now, store>>
            /\ UNCHANGED wvars

HydrateScreenNames ==
    \E screen_names \in Lists(NameValues) :
        \E fail_at \in FailAt(None, screen_names) :
            /\ Hydrate(None, screen_names, fail_at)
            /\ UNCHANGED <<impl, directory, users_in_path, now, store>>
            /\ UNCHANGED wvars

NextCache ==
    \/ Tick
    \/ AddCache
    \/ HydrateUserIds
    \/ HydrateScreenNames

SpecCache == InitCache /\ [][NextCache]_vars

(***************************************************************************)
(* The claims about the Directory.                                         *)
(***************************************************************************)

\* The user_ids the cache holds.
CachedIds(c) == {r.user_id : r \in c}

\* The accounts the cache holds, without the time they were stored.
CachedAccounts(c) == {AccountOf(r) : r \in c}

\* A row is within the expiry at time t (stored less than cache_expiry
\* seconds ago), or past it (stored more than cache_expiry seconds ago).
Fresh(row, t) == row.last_updated > t - CacheExpiry
Expired(row, t) == row.last_updated < t - CacheExpiry

\* C11: add_cache is an upsert keyed by user_id.  The cache never holds two
\* rows of one user_id; after add_cache(user) the row of that user_id
\* carries the attributes of this user and last_updated = now, the rows of
\* the other accounts are as they were; and a put of an account the cache
\* already holds with these attributes leaves the set of cached accounts
\* and their attributes unchanged.
C11_AddCacheIsUpsert ==
    [][/\ \A r1, r2 \in cache' : r1.user_id = r2.user_id => r1 = r2
       /\ done'.op = "add_cache" =>
              LET user == done'.user
              IN  /\ {r \in cache' : r.user_id = user.user_id}
                         = {CacheSQL(user, now')}
                  /\ {r \in cache' : r.user_id # user.user_id}
                         = {r \in cache : r.user_id # user.user_id}
                  /\ user \in CachedAccounts(cache) =>
                         CachedAccounts(cache') = CachedAccounts(cache)]_vars

\* C11 witness: add_cache has just stored an account again, a second after
\* the Directory was built at the earliest, next to the older row of another
\* account.
C11_Witness ==
    /\ done.op = "add_cache"
    /\ now > 0
    /\ CacheSQL(done.user, now) \in cache
    /\ \E r \in cache : r.user_id # done.user.user_id /\ r.last_updated < now

\* C12: no operation removes a cache row: the set of cached user_ids only
\* grows.
C12_CacheOnlyGrows ==
    [][CachedIds(cache) \subseteq CachedIds(cache')]_vars

\* C12 witness: hydrate_user_identifiers has returned and the cache holds
\* two accounts, one of them past the expiry.
C12_Witness ==
    /\ done.op = "hydrate_user_identifiers"
    /\ Cardinality(CachedIds(cache)) = 2
    /\ \E r \in cache : Expired(r, now)

\* A call of hydrate_user_identifiers by id, by name, and one that got as
\* far as get_cache.
ById(d) == d.op = "hydrate_user_identifiers" /\ Truthy(d.user_ids)
ByName(d) ==
    d.op = "hydrate_user_identifiers" /\ ~Truthy(d.user_ids) /\ Truthy(d.screen_names)
GetCalled(d) == ById(d) \/ ByName(d)

\* The keys a call asks for, in the space it resolves in: the ids, or the
\* names in lower case; and the key of a cache row or account in that space.
Keys(d) ==
    IF ById(d)
    THEN {k.value : k \in Range(d.user_ids)}
    ELSE {lower(k.value) : k \in Range(d.screen_names)}

KeyOf(d, row) == IF ById(d) THEN row.user_id ELSE lower(row.screen_name)

\* The list a call was given.
Given(d) == IF ById(d) THEN d.user_ids ELSE d.screen_names

\* The identifiers sent to lookup_users in the batches given.
Sent(calls) == UNION {{k.value : k \in Range(calls[i])} : i \in DOMAIN calls}

\* C13: get_cache applies the expiry to the time of the call: no row it
\* returns was stored before now - cache_expiry, and a row of a requested
\* id that was stored after now - cache_expiry is returned.
C13_TtlRelativeToCall ==
    [][GetCalled(done') =>
           /\ \A r \in done'.cache_results : ~Expired(r, now)
           /\ ById(done') =>
                  \A r \in cache :
                      r.user_id \in Keys(done') /\ Fresh(r, now)
                          => r \in done'.cache_results]_vars

\* C14: resolution by name ignores case: a row within the expiry whose
\* screen name equals an input name up to case is returned by get_cache
\* and the name is in no batch sent to lookup_users.
C14_NameHitIgnoresCase ==
    [][ByName(done') =>
           \A r \in cache :
               lower(r.screen_name) \in Keys(done') /\ Fresh(r, now)
                   => /\ r \in done'.cache_results
                      /\ lower(r.screen_name) \notin Sent(done'.calls)]_vars

\* C15: for a list of any length get_cache returns exactly the rows that
\* match an input identifier and are within the expiry.
C15_GetReturnsMatchingFresh ==
    [][GetCalled(done') =>
           LET matching == {r \in cache : KeyOf(done', r) \in Keys(done')}
           IN  /\ {r \in matching : Fresh(r, now)} \subseteq done'.cache_results
               /\ done'.cache_results \subseteq {r \in matching : ~Expired(r, now)}]_vars

\* The keys of a call that a row within the expiry holds, and those no row
\* holds unless one past the expiry.
FreshKeys(d, c, t) == {k \in Keys(d) : \E r \in c : KeyOf(d, r) = k /\ Fresh(r, t)}
UncachedKeys(d, c, t) ==
    {k \in Keys(d) : \A r \in c : KeyOf(d, r) = k => Expired(r, t)}

\* C16: a resolution that returns sends to lookup_users only identifiers
\* that are not within the expiry in the cache, and all those the cache does
\* not hold; when the input names no identifier twice and these fit one
\* batch it makes exactly one call; afterwards the rows cached before and
\* the accounts fetched are in the cache.
C16_OnlyUncachedSent ==
    [][GetCalled(done') /\ done'.raised = "" =>
           /\ Sent(done'.calls) \cap FreshKeys(done', cache, now) = {}
           /\ UncachedKeys(done', cache, now) \subseteq Sent(done'.calls)
           /\ (/\ Sent(done'.calls) # {}
               /\ Cardinality(Sent(done'.calls)) <= ChunkSize
               /\ Cardinality(Keys(done')) = Len(Given(done')))
                  => Len(done'.calls) = 1
           /\ CachedIds(cache) \subseteq CachedIds(cache')
           /\ \A a \in done'.tweepy_results : CacheSQL(a, now) \in cache']_vars

\* The keys of a call that a row within the expiry or the remote service
\* can resolve, and those neither can.
Known(d, c, t) ==
    FreshKeys(d, c, t) \cup {k \in Keys(d) : \E a \in RemoteAccounts : KeyOf(d, a) = k}
Unknown(d, c, t) ==
    {k \in UncachedKeys(d, c, t) : \A a \in RemoteAccounts : KeyOf(d, a) # k}

\* C17: hydrate_user_identifiers returns one record for each distinct input
\* identifier that is within the expiry in the cache or known to the remote
\* service and none for an identifier known to neither; it raises nothing
\* but the failure of a lookup; and with an empty list it returns an empty
\* list and calls neither get_cache nor lookup_users.
C17_OneRecordPerKnownIdentifier ==
    [][done'.op = "hydrate_user_identifiers" =>
           /\ done'.raised # "TypeError"
           /\ ~GetCalled(done') =>
                  /\ done'.raised = ""
                  /\ done'.cache_results = {} /\ done'.calls = <<>>
                  /\ done'.tweepy_results = {}
           /\ GetCalled(done') /\ done'.raised = "" =>
                  LET results == CachedAccounts(done'.cache_results)
                                     \cup done'.tweepy_results
                      keys == {KeyOf(done', a) : a \in results}
                  IN  /\ Known(done', cache, now) \subseteq keys
                      /\ keys \cap Unknown(done', cache, now) = {}
                      /\ keys \subseteq Keys(done')
                      /\ Cardinality(done'.cache_results)
                             + Cardinality(done'.tweepy_results)
                                 = Cardinality(keys)]_vars

\* lookup_users raised during the call.
LookupFailed(d) == d.op = "hydrate_user_identifiers" /\ d.raised = "TweepError"

\* The accounts the batches before the last one return: the last call is
\* the one that raised.
ReturnedBefore(d) ==
    UNION {lookup_users(ById(d), d.calls[i]) : i \in 1..(Len(d.calls) - 1)}

\* C18 as stated: when lookup_users fails on the k-th batch the failure
\* leaves the call after exactly k calls, every account batches 1..k-1
\* returned is in the cache as stored by this call, and every row the cache
\* held before the call is still there, unchanged.
C18_FailureKeepsEveryRow ==
    [][LookupFailed(done') =>
           /\ done'.calls # <<>>
           /\ \A a \in ReturnedBefore(done') : CacheSQL(a, now) \in cache'
           /\ cache \subseteq cache']_vars

\* C18 amended: when lookup_users fails on the k-th batch the failure
\* leaves the call after exactly k calls, every account batches 1..k-1
\* returned is in the cache as stored by this call, and every row the cache
\* held before the call is still there, unchanged unless batches 1..k-1
\* returned its account: then the row is the one this call stored.
C18_FailureKeepsRowsNotFetched ==
    [][LookupFailed(done') =>
           /\ done'.calls # <<>>
           /\ \A a \in ReturnedBefore(done') : CacheSQL(a, now) \in cache'
           /\ CachedIds(cache) \subseteq CachedIds(cache')
           /\ \A r \in cache :
                  r.user_id \notin {a.user_id : a \in ReturnedBefore(done')}
                      => r \in cache']_vars

\* C18 witness: the second batch failed after the first had returned an
\* account, which is now in the cache next to an older row.
C18_Witness ==
    /\ LookupFailed(done)
    /\ Len(done.calls) = 2
    /\ ReturnedBefore(done) # {}
    /\ \A a \in ReturnedBefore(done) : CacheSQL(a, now) \in cache
    /\ \E r \in cache : r.last_updated < now

\* The identifiers of a call as hydrate_user_identifiers compares them with
\* the cache: the ids as given, the names in lower case.
Identifiers(d) ==
    IF ById(d)
    THEN d.user_ids
    ELSE [i \in DOMAIN d.screen_names |-> PyStr(lower(d.screen_names[i].value))]

\* The identifier is one the cache answered: a record get_cache returned
\* carries it as its id or as its screen name.
Hit(d, k) ==
    \E r \in d.cache_results : PyIn(k, {r.user_id, lower(r.screen_name)})

\* The batches of a call, one after the other.
RECURSIVE Flatten(_)
Flatten(calls) ==
    IF calls = <<>> THEN <<>> ELSE Head(calls) \o Flatten(Tail(calls))

\* The identifiers of a call that miss the cache, in input order.
MissList(d) ==
    LET Miss(k) == ~Hit(d, k)
    IN  SelectSeq(Identifiers(d), Miss)

ResolvedKeys(d) ==
    {KeyOf(d, a) : a \in CachedAccounts(d.cache_results) \cup d.tweepy_results}

\* C24: when a resolution has returned, every account lookup_users
\* returned to it is in the cache as stored by it; and when it resolved
\* every identifier it was given, the same resolution made again now, within
\* the expiry of what it stored, sends nothing to lookup_users.
C24_FetchedServeNextCall ==
    (GetCalled(done) /\ done.raised = "") =>
        /\ \A a \in done.tweepy_results : CacheSQL(a, now) \in cache
        /\ Keys(done) \subseteq ResolvedKeys(done) =>
               hydrate_user_identifiers(cache, done.user_ids, done.screen_names,
                                        0, now).calls = <<>>

(***************************************************************************)
(* The imports of the watchlist when the fetch of the external list        *)
(* fails.                                                                  *)
(***************************************************************************)

\* What `last` records of an import whose fetch raised: nothing ran.
Raised(op) == Op(op, Null, {}, Null, FALSE, FALSE, {})

\* The lines import_blockbot_list reads from a response that carries an
\* error status: requests.get returns it like any other, and a body of at
\* most one line without a newline splits into no complete line.
ErrorBody == {}

\* import_twitter_list when _API.get_list or twitter_list.members() raises:
\* both run before _import_list opens its session.
ImportTwitterListFails ==
    \E twitter_id \in ExternalIds :
        /\ UNCHANGED <<watchlist, sublists, user_sublists>>
        /\ last' = Raised("import_twitter_list raised")
        /\ UNCHANGED <<session, user_data, dvars>>

\* import_blockbot_list when the fetch fails: requests.get raises (no
\* connection), or it returns the response of a server that answered with
\* an error status, which is imported as the list.
ImportBlockbotListFails ==
    \E blockbot_id \in ExternalIds :
        /\ \/ /\ UNCHANGED <<watchlist, sublists, user_sublists>>
              /\ last' = Raised("import_blockbot_list raised")
           \/ /\ import_blockbot_list(blockbot_id, ErrorBody)
              /\ last' = [ImportOp("import_blockbot_list", blockbot_id, ErrorBody)
                              EXCEPT !.op = "import_blockbot_list error status"]
        /\ UNCHANGED <<session, user_data, dvars>>

\* refresh_sublist of an imported sublist when the fetch fails.
RefreshSublistFails ==
    \E sublist \in sublists :
        /\ \/ /\ sublist.sublist_type_id
                     \in {SUBLIST_TYPE_TWITTER, SUBLIST_TYPES_BLOCKBOT}
              /\ UNCHANGED <<watchlist, sublists, user_sublists>>
              /\ last' = Raised("refresh_sublist raised")
           \/ /\ sublist.sublist_type_id = SUBLIST_TYPES_BLOCKBOT
              /\ import_blockbot_list(sublist.external_id, ErrorBody)
              /\ last' = [ImportOp("refresh_sublist", sublist.external_id, ErrorBody)
                              EXCEPT !.op = "refresh_sublist error status"]
        /\ UNCHANGED <<session, user_data, dvars>>

NextFetch ==
    \/ Next
    \/ ImportTwitterListFails
    \/ ImportBlockbotListFails
    \/ RefreshSublistFails

SpecFetch == Init /\ [][NextFetch]_vars

\* The operations whose fetch raised, and those whose fetch got an error
\* status.
FetchRaised ==
    {"import_twitter_list raised", "import_blockbot_list raised",
     "refresh_sublist raised"}
FetchErrorStatus ==
    {"import_blockbot_list error status", "refresh_sublist error status"}

\* C19: when the fetch of the external list fails during
\* import_twitter_list, import_blockbot_list or refresh_sublist, the call
\* raises and the sublists, the links with their flags and the watchlist
\* are what they were before the call.
C19_FetchFailureChangesNothing ==
    [][last'.op \in FetchRaised \cup FetchErrorStatus =>
           /\ last'.op \in FetchRaised
           /\ UNCHANGED <<watchlist, sublists, user_sublists>>]_vars

(***************************************************************************)
(* The directory of per-account stores and its scan.                       *)
(***************************************************************************)

\* The accounts that have or had a store ./users/<user_id>.db: account 1,
\* and an account the remote service no longer knows.
StoreUsers == {Account("1", "Al"), Account("3", "zed")}
StoreIds == {user.user_id : user \in StoreUsers}

\* Directory.add_directory(user), and the merge of a resolved account in
\* scan_and_update_directory: an upsert on the primary key user_id.
add_directory(rows, user, t) ==
    {r \in rows : r.user_id # user.user_id} \cup {DirectorySQL(user, t)}

\* `for user in add: session.merge(user)`.
RECURSIVE MergeAll(_, _, _)
MergeAll(rows, users, t) ==
    IF users = {}
    THEN rows
    ELSE LET user == CHOOSE x \in users : TRUE
         IN  MergeAll(add_directory(rows, user, t), users \ {user}, t)

\* users_in_path: the numeric file names, which user.py converts with int()
\* and directory.py keeps as str.
UsersInPath ==
    {IF impl = "user.py" THEN PyInt(fn) ELSE PyStr(fn) : fn \in users_in_path}

\* users_in_directory: the user_id (a str) of the rows newer than the
\* cutoff.
UsersInDirectory ==
    {PyStr(u.user_id) : u \in {r \in directory : r.last_updated > ExpiredTime}}

\* list(s): the elements of a set in some order.
ListOf(S) == {list \in [1..Cardinality(S) -> S] : Range(list) = S}

\* The delete of scan_and_update_directory: the rows whose user_id is in
\* `delete`.
DeleteUsers(rows, delete) ==
    {r \in rows : PyStr(r.user_id) \notin delete}

\* scan_and_update_directory().  add is list(users_in_path -
\* users_in_directory); user.py passes it to hydrate_user_identifiers even
\* when it is empty, directory.py only when it is not.  An exception of
\* hydrate_user_identifiers leaves the scan before anything is merged.  The
\* records returned are merged, those of the cache first, and committed;
\* then the rows of users_in_directory - users_in_path are deleted.
scan_and_update_directory(add, fail_at) ==
    LET resolves == impl = "user.py" \/ add # <<>>
        h == IF resolves
             THEN hydrate_user_identifiers(cache, add, None, fail_at, now)
             ELSE Hydrated(cache, {}, <<>>, {}, "")
        merged == MergeAll(MergeAll(directory, CachedAccounts(h.cache_results), now),
                           h.tweepy_results, now)
        delete == UsersInDirectory \ UsersInPath
    IN  /\ cache' = h.cache
        /\ directory' = IF h.raised = ""
                        THEN DeleteUsers(merged, delete)
                        ELSE directory
        /\ done' = DirCall("scan_and_update_directory", add, None, NoUser,
                           h.cache_results, h.calls, h.tweepy_results, h.raised)

\* The rows the directory table can hold when the Directory is built: rows
\* of an earlier process, as old as the cutoff.
PersistedDirectory == SUBSET {DirectorySQL(user, ExpiredTime) : user \in StoreUsers}

\* The Directory once built, in either module: directory.db holds no cache
\* rows, ./users/ holds any of the stores.
InitDirectory ==
    /\ watchlist = {}
    /\ sublists = {SubListSQL(SUBLIST_TYPE_SELF, SUBLIST_TYPE_SELF, Null)}
    /\ user_sublists = {}
    /\ last = Op("_db_init", Null, {}, Null, FALSE, FALSE, {})
    /\ session = Idle
    /\ user_data = {}
    /\ impl \in {"user.py", "directory.py"}
    /\ cache = {}
    /\ directory \in PersistedDirectory
    /\ users_in_path \in SUBSET StoreIds
    /\ now = 0
    /\ done = Built
    /\ store = {}

\* User(user_id) creates the store of the account.
CreateStore ==
    \E user_id \in StoreIds \ users_in_path :
        /\ users_in_path' = users_in_path \cup {user_id}
        /\ done' = DirCall("User", <<PyStr(user_id)>>, None, NoUser, {}, <<>>, {}, "")
        /\ UNCHANGED <<impl, cache, directory, now, store>>
        /\ UNCHANGED wvars

\* The file of a store is removed from ./users/.
RemoveStore ==
    \E user_id \in users_in_path :
        /\ users_in_path' = users_in_path \ {user_id}
        /\ done' = DirCall("unlink", <<PyStr(user_id)>>, None, NoUser, {}, <<>>, {}, "")
        /\ UNCHANGED <<impl, cache, directory, now, store>>
        /\ UNCHANGED wvars

\* User._fetch_user adds the account of its store to the directory.
AddDirectory ==
    \E user \in StoreUsers :
        /\ user.user_id \in users_in_path
        /\ directory' = add_directory(directory, user, now)
        /\ done' = DirCall("add_directory", None, None, user, {}, <<>>, {}, "")
        /\ UNCHANGED <<impl, cache, users_in_path, now, store>>
        /\ UNCHANGED wvars

ScanAndUpdateDirectory ==
    \E add \in ListOf(UsersInPath \ UsersInDirectory) :
        \E fail_at \in FailAt(add, None) :
            /\ scan_and_update_directory(add, fail_at)
            /\ UNCHANGED <<impl, users_in_path, now, store>>
            /\ UNCHANGED wvars

NextDirectory ==
    \/ Tick
    \/ CreateStore
    \/ RemoveStore
    \/ AddDirectory
    \/ ScanAndUpdateDirectory

SpecDirectory == InitDirectory /\ [][NextDirectory]_vars

\* scan_and_update_directory has returned.
Scanned(d) == d.op = "scan_and_update_directory" /\ d.raised = ""

\* C20: after scan_and_update_directory has completed, the directory holds
\* no row of an account without a store on disk, whether the row was within
\* the expiry or past it before the scan.
C20_NoRowWithoutStore ==
    Scanned(done) => \A r \in directory : r.user_id \in users_in_path

\* The ids the remote service can resolve.
RemoteIds == {a.user_id : a \in RemoteAccounts}

CommittedAt_EveryStatement(pc, committed, working) == working

\* The rows a connection other than the session's reads when the session
\* has got to pc: those of the last commit.  _import_list and the
\* add_watchlist it calls share the scoped session of their thread, whose
\* only commit on this path is the one at the end of add_watchlist.
CommittedAt(pc, committed, working) ==
    IF pc = "committed" THEN working ELSE committed

\* get_sublist_users(sublist_id) on the tables (wl, rows): the watchlist
\* rows joined with the links of the sublist.
get_sublist_users(wl, rows, sublist_id) ==
    {u \in wl : \E r \in rows : r.user_id = u /\ r.sublist_id = sublist_id}

\* The sets of links the store can hold for the self sublist and one
\* imported sublist: at most one row for a pair of user and sublist.
StoredLinks ==
    {rows \in SUBSET {UserSubListSQL(u, s, e) :
                         u \in UserIds, s \in 1..2, e \in BOOLEAN} :
        \A r1, r2 \in rows :
            r1.user_id = r2.user_id /\ r1.sublist_id = r2.sublist_id => r1 = r2}

\* The store some time after an import of external list 1: the imported
\* sublist, any links the operations have left, and the watchlist rows of
\* the linked accounts.
InitRefresh ==
    /\ \E sublist_type_id \in {SUBLIST_TYPE_TWITTER, SUBLIST_TYPES_BLOCKBOT} :
           sublists = {SubListSQL(SUBLIST_TYPE_SELF, SUBLIST_TYPE_SELF, Null),
                       SubListSQL(2, sublist_type_id, 1)}
    /\ user_sublists \in StoredLinks
    /\ watchlist = {r.user_id : r \in user_sublists}
    /\ last = Op("_db_init", Null, {}, Null, FALSE, FALSE, {})
    /\ session = Idle
    /\ user_data = {}
    /\ impl = "user.py"
    /\ cache = {}
    /\ directory = {}
    /\ users_in_path = {}
    /\ now = 0
    /\ done = Built
    /\ store = {}

\* refresh_sublist(sublist_id) up to the first delete of _import_list: the
\* links of the sublist that are not locally excluded are deleted in the
\* transaction of the session.
ImportListDeleteLinks ==
    \E sublist \in sublists, users \in SUBSET UserIds :
        LET sid == sublist.sublist_id
            rows == DeleteNotExcluded(user_sublists, sid)
        IN  /\ session.pc = "idle"
            /\ sublist.sublist_type_id
                   \in {SUBLIST_TYPE_TWITTER, SUBLIST_TYPES_BLOCKBOT}
            /\ session' = Session("links deleted", sid, users,
                                  get_sublist_users(watchlist, user_sublists, sid),
                                  watchlist, rows, {})
            /\ user_sublists' = CommittedAt("links deleted", user_sublists, rows)
            /\ UNCHANGED <<watchlist, sublists, last, user_data>>
            /\ UNCHANGED dvars

\* The second delete of _import_list: the watchlist rows left without a
\* link, in the same transaction.
ImportListDeleteOrphans ==
    LET wl == DeleteOrphans(session.watchlist, session.user_sublists)
    IN  /\ session.pc = "links deleted"
        /\ session' = [session EXCEPT !.pc = "orphans deleted", !.watchlist = wl]
        /\ watchlist' = CommittedAt("orphans deleted", watchlist, wl)
        /\ UNCHANGED <<sublists, user_sublists, last, user_data>>
        /\ UNCHANGED dvars

\* The call of add_watchlist that ends _import_list: the merges, and the
\* commit at the end of its `with self._session()`.
ImportListAddWatchlist ==
    /\ session.pc = "orphans deleted"
    /\ add_watchlist(session.watchlist, session.user_sublists, session.users,
                     session.sublist_id)
    /\ session' = Idle
    /\ last' = Op("refresh_sublist", session.sublist_id, session.users, Null,
                  FALSE, FALSE, session.pre_members)
    /\ UNCHANGED <<sublists, user_data>>
    /\ UNCHANGED dvars

\* A reader on another connection calls get_sublist_users for the sublist
\* while the refresh is under way.
GetSublistUsers ==
    /\ session.pc # "idle"
    /\ session' = [session EXCEPT !.seen =
           @ \cup {get_sublist_users(watchlist, user_sublists, session.sublist_id)}]
    /\ UNCHANGED <<watchlist, sublists, user_sublists, last, user_data>>
    /\ UNCHANGED dvars

\* The steps of a refresh and its reader.
NextRefresh ==
    \/ ImportListDeleteLinks
    \/ ImportListDeleteOrphans
    \/ ImportListAddWatchlist
    \/ GetSublistUsers

SpecRefresh == InitRefresh /\ [][NextRefresh]_vars

\* The members the sublist has in the open transaction once the links are
\* deleted, and those it has when the refresh has committed.
TransientMembers ==
    get_sublist_users(session.watchlist, session.user_sublists, session.sublist_id)
PostMembers == TransientMembers \cup session.users

\* A set of members smaller than the sublist had before the refresh and
\* than it has after it.
Fewer(members) ==
    /\ Cardinality(members) < Cardinality(session.pre_members)
    /\ Cardinality(members) < Cardinality(PostMembers)

\* C22 as stated: the refresh is not atomic to other readers.  When the
\* delete has left the sublist with fewer members than it had before and
\* has after the refresh, a reader that reads the sublist between the
\* delete and the end of the refresh observes fewer members than both.
C22_ReaderSeesFewerMembers ==
    (session.pc # "idle" /\ Fewer(TransientMembers) /\ session.seen # {})
        => \E members \in session.seen : Fewer(members)

\* C22 amended: the refresh of a sublist is atomic to other readers.  A
\* reader that reads the sublist between the delete and the end of the
\* refresh observes the members it had before the refresh, never fewer
\* members than both before and after.
C22_ReaderSeesPreRefreshMembers ==
    session.pc # "idle" =>
        \A members \in session.seen :
            members = session.pre_members /\ ~Fewer(members)

\* C22 witness: the open transaction has deleted a link and the orphan, the
\* sublist has fewer members in it than before and after, and a reader has
\* read the sublist meanwhile.
C22_Witness ==
    /\ session.pc = "orphans deleted"
    /\ Fewer(TransientMembers)
    /\ session.watchlist # watchlist
    /\ session.seen = {session.pre_members}

(***************************************************************************)
(* refresh_sublists.                                                       *)
(***************************************************************************)

\* The two tables a refresh writes.
Store(wl, rows) == [watchlist |-> wl, user_sublists |-> rows]

\* The flags add_watchlist can read for the users: one of the flags of
\* PrevLocallyExcluded for each.
Picks(rows, users, sublist_id) ==
    {picked \in [users -> BOOLEAN] :
        \A u \in users : picked[u] \in PrevLocallyExcluded(rows, u, sublist_id)}

\* _import_list on a sublist that exists, as the tables it can leave: the
\* two deletes, then add_watchlist.
ImportExisting(tables, sublist_id, users) ==
    LET rows == DeleteNotExcluded(tables.user_sublists, sublist_id)
        wl == DeleteOrphans(tables.watchlist, rows)
    IN  {Store(wl \cup users, AddUsers(rows, users, sublist_id, picked)) :
            picked \in Picks(rows, users, sublist_id)}

\* refresh_sublist(sublist_id) as the tables it can leave; fetched[e] is
\* the list the source of external id e returns.  The self sublist passes.
RefreshOne(tables, sublist_id, fetched) ==
    LET sublist == CHOOSE s \in sublists : s.sublist_id = sublist_id
    IN  IF sublist.sublist_type_id \in {SUBLIST_TYPE_TWITTER, SUBLIST_TYPES_BLOCKBOT}
        THEN ImportExisting(tables, sublist_id, fetched[sublist.external_id])
        ELSE {tables}

\* `for sublist in sublists: self.refresh_sublist(sublist.sublist_id)`.
RECURSIVE RefreshEach(_, _, _)
RefreshEach(stores, ids, fetched) ==
    IF ids = <<>>
    THEN stores
    ELSE RefreshEach(UNION {RefreshOne(tables, Head(ids), fetched) : tables \in stores},
                     Tail(ids), fetched)

\* refresh_sublists(): the query reads the sublist_id of every user_sublists
\* row, in the order the store returns the rows, and each is refreshed.
refresh_sublists(order, fetched) ==
    \E tables \in RefreshEach({Store(watchlist, user_sublists)},
                             [i \in DOMAIN order |-> order[i].sublist_id], fetched) :
        /\ watchlist' = tables.watchlist
        /\ user_sublists' = tables.user_sublists
        /\ UNCHANGED sublists
        /\ last' = Op("refresh_sublists", Null, fetched, Null, FALSE, FALSE, {})

RefreshSublists ==
    \E order \in ListOf(user_sublists), fetched \in [ExternalIds -> SUBSET UserIds] :
        /\ refresh_sublists(order, fetched)
        /\ UNCHANGED <<session, user_data, dvars>>

\* refresh_sublists and the removal of a sublist, on the store some time
\* after an import.
NextSublists ==
    \/ RefreshSublists
    \/ RemoveSublist

SpecSublists == InitRefresh /\ [][NextSublists]_vars

\* The imported sublists.
Imported(rows) ==
    {s \in rows : s.sublist_type_id \in {SUBLIST_TYPE_TWITTER, SUBLIST_TYPES_BLOCKBOT}}

\* C25: refresh_sublists refreshes every imported sublist that exists when
\* it is called, one without links included: afterwards every account of
\* the list its source returned is on the watchlist and linked to it, and
\* no link of it that was not locally excluded is left for an account the
\* list lacks; the links of the self sublist are as they were.
C25_EveryImportedSublistRefreshed ==
    [][last'.op = "refresh_sublists" =>
           /\ \A s \in Imported(sublists) :
                  LET users == last'.users[s.external_id]
                  IN  /\ \A x \in users :
                             /\ x \in watchlist'
                             /\ LinksOf(user_sublists', x, s.sublist_id) # {}
                      /\ \A r \in user_sublists :
                             (/\ r.sublist_id = s.sublist_id
                              /\ ~r.locally_excluded
                              /\ r.user_id \notin users)
                             => LinksOf(user_sublists', r.user_id, r.sublist_id) = {}
           /\ {r \in user_sublists' : r.sublist_id = SUBLIST_TYPE_SELF}
                  = {r \in user_sublists : r.sublist_id = SUBLIST_TYPE_SELF}]_vars

(***************************************************************************)
(* refresh_watchlist_user_data.                                            *)
(***************************************************************************)

\* Bound of the model: the cache_expiry of the Watchlist, in seconds.
WatchlistExpiry == 1

\* _transform_user(user) of watchlist.py: the watchlist row of the account,
\* stamped with utcnow().
WatchlistSQL(user, t) ==
    [user_id |-> user.user_id, screen_name |-> user.screen_name,
     last_updated |-> t]

\* session.merge of the rows of the users, an upsert on user_id.
RECURSIVE MergeUsers(_, _, _)
MergeUsers(rows, users, t) ==
    IF users = {}
    THEN rows
    ELSE LET user == CHOOSE x \in users : TRUE
         IN  MergeUsers({r \in rows : r.user_id # user.user_id}
                            \cup {WatchlistSQL(user, t)},
                        users \ {user}, t)

\* The query of refresh_watchlist_user_data: the members whose last_updated
\* is before utcnow() - cache_expiry or whose screen_name is NULL.
NeedsRefresh(wl, rows, t) ==
    {u \in wl :
        \/ \E r \in rows : r.user_id = u /\ r.last_updated < t - WatchlistExpiry
        \/ \A r \in rows : r.user_id # u}

\* refresh_watchlist_user_data(): the members to refresh are passed to
\* hydrate_user_identifiers as user_ids when there are any, and every record
\* it returns is merged into the watchlist table.  An exception of the
\* lookup leaves the call and the session rolls back.
refresh_watchlist_user_data(refresh, fail_at) ==
    LET h == IF refresh # <<>>
             THEN hydrate_user_identifiers(cache, refresh, None, fail_at, now)
             ELSE Hydrated(cache, {}, <<>>, {}, "")
        users == CachedAccounts(h.cache_results) \cup h.tweepy_results
    IN  /\ cache' = h.cache
        /\ IF h.raised = ""
           THEN /\ user_data' = MergeUsers(user_data, users, now)
                /\ watchlist' = watchlist \cup {user.user_id : user \in users}
           ELSE UNCHANGED <<user_data, watchlist>>
        /\ done' = DirCall("refresh_watchlist_user_data", refresh, None, NoUser,
                           h.cache_results, h.calls, h.tweepy_results, h.raised)

\* A watchlist of accounts added to the self sublist by id: an account the
\* remote service knows and one it does not.
InitUserData ==
    /\ watchlist \in SUBSET {"1", "3"}
    /\ sublists = {SubListSQL(SUBLIST_TYPE_SELF, SUBLIST_TYPE_SELF, Null)}
    /\ user_sublists = {UserSubListSQL(u, SUBLIST_TYPE_SELF, FALSE) : u \in watchlist}
    /\ last = Op("add_watchlist", SUBLIST_TYPE_SELF, {}, Null, FALSE, FALSE, {})
    /\ session = Idle
    /\ user_data = {}
    /\ impl = "user.py"
    /\ cache = {}
    /\ directory = {}
    /\ users_in_path = {}
    /\ now = 0
    /\ done = Built
    /\ store = {}

RefreshWatchlistUserData ==
    \E refresh \in ListOf({PyStr(u) : u \in NeedsRefresh(watchlist, user_data, now)}) :
        \E fail_at \in FailAt(refresh, None) :
            /\ refresh_watchlist_user_data(refresh, fail_at)
            /\ UNCHANGED <<sublists, user_sublists, last, session>>
            /\ UNCHANGED <<impl, directory, users_in_path, now, store>>

NextUserData ==
    \/ Tick
    \/ AddCache
    \/ RefreshWatchlistUserData

SpecUserData == InitUserData /\ [][NextUserData]_vars

\* refresh_watchlist_user_data has returned.
DataRefreshed(d) == d.op = "refresh_watchlist_user_data" /\ d.raised = ""

\* C26: refresh_watchlist_user_data changes only the data of the members
\* whose screen_name is missing or whose last_updated is older than
\* cache_expiry at the call: a member with newer data is not passed to the
\* resolver and its row is as it was, and the watchlist holds the same
\* accounts and user_sublists the same rows after the call as before it.
C26_OnlyStaleMembersChange ==
    [][DataRefreshed(done') =>
           /\ \A r \in user_data :
                  r.last_updated >= now - WatchlistExpiry
                      => /\ PyStr(r.user_id) \notin Range(done'.user_ids)
                         /\ r \in user_data'
           /\ watchlist' = watchlist
           /\ user_sublists' = user_sublists]_vars

(***************************************************************************)
(* The per-account store: when User refetches a table.                     *)
(***************************************************************************)

\* The seconds of a day: timedelta keeps a duration as days, seconds and
\* microseconds, and its attribute seconds is the part below one day.
SecondsPerDay == 86400

\* The default cache_expiry of User.
DefaultCacheExpiry == 86400

\* The cache_expiry a User is built with: a minute, or the default.
CacheExpiries == {60, DefaultCacheExpiry}

\* The moments of the model, in seconds: around a minute, a day, a day and
\* a minute, and two days after the first.
Times == {0, 1, 60, 61, 86399, 86400, 86401, 86460, 86461, 172800, 172801}

\* timedelta.seconds of a duration of `elapsed` seconds.
seconds(elapsed) == elapsed % SecondsPerDay

\* What `done` records of a call on the store: the operation, the
\* cache_expiry of the User, and whether it fetched from the remote service.
StoreCall(op, cache_expiry, fetched) ==
    [op |-> op, cache_expiry |-> cache_expiry, fetched |-> fetched]

\* User._cache_expired(table) at time t: the table has no row (max is
\* None), or the attribute seconds of the duration since the newest row
\* exceeds cache_expiry.  The clock has microseconds, so a call in the
\* second in which the row was stored still reads a later time than the
\* row carries, and the duration is not timedelta(0), which alone would be
\* false as a truth value.
cache_expired(table, t, cache_expiry) ==
    IF table = {}
    THEN TRUE
    ELSE LET elapsed == t - SetMax(table)
         IN  seconds(elapsed) > cache_expiry

\* Time passes to a later moment.
Elapse ==
    \E t \in Times :
        /\ t > now
        /\ now' = t
        /\ done' = StoreCall("sleep", 0, FALSE)
        /\ UNCHANGED <<impl, cache, directory, users_in_path, store>>
        /\ UNCHANGED wvars

\* User("1", cache_expiry=...).get_user(): when the cache is expired,
\* _fetch_user gets the account, adds it to the directory and merges its row
\* into the table users, which holds that one row.
GetUser ==
    \E cache_expiry \in CacheExpiries :
        LET expired == cache_expired(store, now, cache_expiry)
        IN  /\ store' = IF expired THEN {now} ELSE store
            /\ directory' = IF expired
                            THEN add_directory(directory, Account("1", "Al"), now)
                            ELSE directory
            /\ done' = StoreCall("get_user", cache_expiry, expired)
            /\ UNCHANGED <<impl, cache, users_in_path, now>>
            /\ UNCHANGED wvars

NextStore ==
    \/ Elapse
    \/ GetUser

\* The store of account 1 has been created and holds nothing yet.
InitStore ==
    /\ watchlist = {}
    /\ sublists = {SubListSQL(SUBLIST_TYPE_SELF, SUBLIST_TYPE_SELF, Null)}
    /\ user_sublists = {}
    /\ last = Op("_db_init", Null, {}, Null, FALSE, FALSE, {})
    /\ session = Idle
    /\ user_data = {}
    /\ impl = "user.py"
    /\ cache = {}
    /\ directory = {}
    /\ users_in_path = {"1"}
    /\ now = 0
    /\ done = Built
    /\ store = {}

SpecStore == InitStore /\ [][NextStore]_vars

\* C27: a store refetches a table exactly when the table has no rows or the
\* time since its newest last_updated exceeds cache_expiry seconds, whatever
\* the duration (a day or more included) and for the default cache_expiry.
C27_RefetchIffExpired ==
    [][done'.op = "get_user" =>
           (done'.fetched <=>
                \/ store = {}
                \/ now - SetMax(store) > done'.cache_expiry)]_vars

\* The keys, in the space a call resolves in, of the identifiers it sent to
\* lookup_users.
SentKeys(d) ==
    IF ById(d) THEN Sent(d.calls) ELSE {lower(s) : s \in Sent(d.calls)}

\* C29: in a resolution that returns, every input identifier for which
\* get_cache returned no record keyed by it in the space resolved (user_id
\* by id, lower-cased screen name by name) is in a batch sent to
\* lookup_users, and a resolution by id gets from the cache no record whose
\* user_id was not asked for.
C29_SpacesKeptApart ==
    (GetCalled(done) /\ done.raised = "") =>
        /\ \A k \in Keys(done) :
               (\A r \in done.cache_results : KeyOf(done, r) # k)
                   => k \in SentKeys(done)
        /\ ById(done) =>
               \A r \in done.cache_results : r.user_id \in Keys(done)

(***************************************************************************)
(* clear_watchlist and remove_watchlist.                                   *)
(***************************************************************************)

\* clear_watchlist(): one DELETE of every watchlist row.  The foreign key
\* of user_sublists is declared but the connection does not enable its
\* enforcement, and a bulk delete cascades nothing: the links stay.
ClearWatchlist ==
    /\ watchlist' = {}
    /\ user_data' = {}
    /\ UNCHANGED <<sublists, user_sublists, session>>
    /\ last' = Op("clear_watchlist", Null, {}, Null, FALSE, FALSE, {})
    /\ UNCHANGED dvars

\* remove_watchlist(user) for a user on the watchlist: session.delete of the
\* row.  The relationship WatchlistSQL.sublists has no cascade, so the flush
\* tries to set user_id of the user's links to NULL, a primary key column,
\* which raises; the session rolls back.  A row without links is deleted.
RemoveWatchlist ==
    \E user_id \in watchlist :
        /\ IF \E r \in user_sublists : r.user_id = user_id
           THEN /\ UNCHANGED <<watchlist, user_data>>
                /\ last' = Raised("remove_watchlist raised")
           ELSE /\ watchlist' = watchlist \ {user_id}
                /\ user_data' = {r \in user_data : r.user_id # user_id}
                /\ last' = Op("remove_watchlist", Null, {}, user_id, FALSE, FALSE, {})
        /\ UNCHANGED <<sublists, user_sublists, session>>
        /\ UNCHANGED dvars

\* Every public operation that writes the watchlist, the sublists or the
\* links.
NextWatchlist ==
    \/ Next
    \/ ClearWatchlist
    \/ RemoveWatchlist

SpecWatchlist == Init /\ [][NextWatchlist]_vars

\* C28: after any sequence of the operations, clear_watchlist and
\* remove_watchlist included, every user_sublists row references a user_id
\* that has a watchlist row.
C28_NoLinkWithoutMember ==
    \A r \in user_sublists : r.user_id \in watchlist

(***************************************************************************)
(* The frame of the operations on one sublist.                             *)
(***************************************************************************)

\* The operations on one sublist, and the rows of the other sublists.
OnSublist(l) ==
    l.op \in {"import_twitter_list", "import_blockbot_list",
              "refresh_sublist", "remove_sublist"}
OtherLinks(rows, sublist_id) == {r \in rows : r.sublist_id # sublist_id}
OtherSublists(rows, sublist_id) == {s \in rows : s.sublist_id # sublist_id}

\* C30: an import, a refresh or a removal of sublist S leaves the
\* user_sublists rows of every other sublist as they were, flag included,
\* and leaves every other sublists row as it was.
C30_OtherSublistsUntouched ==
    [][OnSublist(last') =>
           /\ OtherLinks(user_sublists', last'.sublist_id)
                  = OtherLinks(user_sublists, last'.sublist_id)
           /\ OtherSublists(sublists', last'.sublist_id)
                  = OtherSublists(sublists, last'.sublist_id)]_vars

\* S was refreshed or removed and lost a member that another sublist links,
\* while a link of another sublist is locally excluded.
C30_Witness ==
    /\ OnSublist(last)
    /\ \E x \in last.pre_members :
           /\ LinksOf(user_sublists, x, last.sublist_id) = {}
           /\ \E r \in OtherLinks(user_sublists, last.sublist_id) : r.user_id = x
    /\ \E r \in OtherLinks(user_sublists, last.sublist_id) : r.locally_excluded

====
